---- MODULE Spec2Model ----
(***************************************************************************)
(* Plane / solid intersection pipeline of intersector.py, together with    *)
(* step_file_lib.py (kernel calls) and common_lib.py (output redirection). *)
(* One run of main() is modelled as a sequential state machine; the OCC    *)
(* kernel, the viewer and the file system are the environment, and each    *)
(* of their calls is a nondeterministic choice over its possible outcomes. *)
(***************************************************************************)
EXTENDS Integers, Sequences, FiniteSets, TLC

\* ------------------------------------------------------------------ bounds
MaxArgs  == 7      \* longest --in-plane list considered (nargs='+': at least 1)
MaxCoord == 1      \* bounding-box corners of the loaded solid range over 0..MaxCoord
MaxAbs   == 1      \* corners of the boxes sized on their own: -MaxAbs..MaxAbs
MaxK     == 3      \* scale factors 1..MaxK

\* -------------------------------------------------------- program constants
RetDone   == 1  \* the value the code compares a kernel status with (IFSelect_RetDone)
PlaneArgs == 6  \* number of floats main() requires for --in-plane

\* values tried for the point (first three floats) and for the later floats
PointVals  == {2}
NormalVals == {0, 1}
\* IFSelect_ReturnStatus: RetVoid, RetDone, RetError, RetFail, RetStop
Statuses  == 0..4
Coords    == 0..MaxCoord
SignedCoords == (0 - MaxAbs)..MaxAbs

VARIABLES
  pc,             \* position in main(): [blk, ph]
  in_step_exists, \* whether --in-step names an existing file
  in_plane,       \* args.in_plane
  plane_point, plane_normal,
  err,            \* exception that ended the run, "none" otherwise
  out,            \* messages printed by the run
  pending,        \* exception unwinding through a redirect_output scope
  stdout_fd, stderr_fd,   \* what descriptors 1 and 2 point to: "tty" or "log"
  saved_fds,      \* open descriptors made by os.dup in redirect_output
  log_open,       \* the log file object of the current scope is open
  depth,          \* number of redirect_output scopes currently entered
  log_opens,      \* number of times the log file has been opened
  calls,          \* number of invocations of each kernel operation
  read_status, transfer_ok, shape, plane, is_done,
  result_shape, has_edges, result,
  bbox, dims, dimension, patch,
  image_on_disk, step_on_disk, render_outcome, write_status,
  history,        \* pipeline stages reached, in order
  e_pc, e_box, e_k, e_dims, e_dim, e_patch, e_sdims, e_sdim

pipeVars == <<pc, in_step_exists, in_plane, plane_point, plane_normal, err, out,
              pending, stdout_fd, stderr_fd, saved_fds, log_open, depth,
              log_opens, calls, read_status, transfer_ok, shape, plane, is_done,
              result_shape, has_edges, result, bbox, dims, dimension, patch,
              image_on_disk, step_on_disk, render_outcome, write_status, history>>
extVars == <<e_pc, e_box, e_k, e_dims, e_dim, e_patch, e_sdims, e_sdim>>
vars == <<pipeVars, extVars>>

KernelOps == {"ReadFile", "TransferRoots", "OneShape", "gp_Dir", "Build",
              "Explore", "BndBox", "init_display", "ExportToImage", "Write"}

\* ----------------------------------------------------------- pure helpers
SeqsUpTo(S, n) == UNION {[1..k -> S] : k \in 1..n}
\* the --in-plane lists tried: nargs='+' gives at least one value
PlaneInputs == {p \in SeqsUpTo(PointVals \cup NormalVals, MaxArgs) :
                  \A i \in 1..Len(p) : IF i <= 3 THEN p[i] \in PointVals
                                                 ELSE p[i] \in NormalVals}

BoxesOver(C) == {b \in [xmin : C, ymin : C, zmin : C,
                         xmax : C, ymax : C, zmax : C] :
                    b.xmin <= b.xmax /\ b.ymin <= b.ymax /\ b.zmin <= b.zmax}
Boxes == BoxesOver(Coords)

NoBox   == [xmin |-> 0, ymin |-> 0, zmin |-> 0, xmax |-> 0, ymax |-> 0, zmax |-> 0]
NoDims  == <<0, 0, 0>>
NoPatch == [umin |-> 0, umax |-> 0, vmin |-> 0, vmax |-> 0]
\* a section result, as the set of kinds of sub-entity it contains
NoShape == {}
ResultShapes == SUBSET {"VERTEX", "EDGE", "FACE"}

Pos(b, p) == [blk |-> b, ph |-> p]

\* variant: the length test only rejects lists that are too short
PlaneLenOk_AtLeast(p) == Len(p) >= PlaneArgs
\* len(args.in_plane) != 6 is the error case
PlaneLenOk(p) == Len(p) = PlaneArgs

\* variant: the direction constructor accepts every vector
gp_DirRaises_Never(n) == FALSE
\* gp_Dir(*plane_normal) raises Standard_ConstructionError on a zero vector
gp_DirRaises(n) == \A i \in 1..Len(n) : n[i] = 0

\* variant: any non-zero read status counts as success
ReadStatusOk_Truthy(s) == s # 0
\* read_step_geometry: status != 1 is the error case
ReadStatusOk(s) == s = RetDone

\* variant: any non-zero write status counts as success
WriteStatusOk_Truthy(s) == s # 0
\* main: status != True is the error case (True == 1 in Python)
WriteStatusOk(s) == s = RetDone

\* variant: the explorer visits faces instead of edges
ExplorerMore_Faces(s) == "FACE" \in s
\* TopExp_Explorer(result_shape, TopAbs_EDGE).More()
ExplorerMore(s) == "EDGE" \in s

\* variant: the no-intersection branch is missing
BranchTarget_Always(r) == "Viz"
\* if result: ... else: print("No intersection found")
BranchTarget(r) == IF r THEN "Viz" ELSE "NoIntersection"

\* dx, dy, dz of bbox.Get()
compute_dimensions(b) == <<b.xmax - b.xmin, b.ymax - b.ymin, b.zmax - b.zmin>>

Max2(a, b) == IF b > a THEN b ELSE a
Min2(a, b) == IF b < a THEN b ELSE a
\* variant: the smallest span is taken
MaxDim_Min(d) == Min2(Min2(d[1], d[2]), d[3])
\* dimension = max(dx, dy, dz)
MaxDim(d) == Max2(Max2(d[1], d[2]), d[3])

\* BRepBuilderAPI_MakeFace(plane, -dimension, dimension, -dimension, dimension)
create_face(d) == [umin |-> 0 - d, umax |-> d, vmin |-> 0 - d, vmax |-> d]

Scale(b, k) == [xmin |-> k * b.xmin, ymin |-> k * b.ymin, zmin |-> k * b.zmin,
                xmax |-> k * b.xmax, ymax |-> k * b.ymax, zmax |-> k * b.zmax]

\* ------------------------------------------------------------------- Init
ExtIdle ==
  /\ e_pc = "idle" /\ e_box = NoBox /\ e_k = 1 /\ e_dims = NoDims /\ e_dim = 0
  /\ e_patch = NoPatch /\ e_sdims = NoDims /\ e_sdim = 0

PipeStart ==
  /\ pc = Pos("Parse", "run")
  /\ plane_point = <<>> /\ plane_normal = <<>>
  /\ err = "none" /\ out = <<>> /\ pending = "none"
  /\ stdout_fd = "tty" /\ stderr_fd = "tty" /\ saved_fds = {}
  /\ log_open = FALSE /\ depth = 0 /\ log_opens = 0
  /\ calls = [o \in KernelOps |-> 0]
  /\ read_status = 0 /\ transfer_ok = FALSE /\ shape = "unset" /\ plane = "unset"
  /\ is_done = FALSE /\ result_shape = NoShape /\ has_edges = FALSE
  /\ result = FALSE
  /\ bbox = NoBox /\ dims = NoDims /\ dimension = 0 /\ patch = NoPatch
  /\ image_on_disk = FALSE /\ step_on_disk = FALSE
  /\ render_outcome = "none" /\ write_status = 0
  /\ history = <<"Start">>

Init ==
  /\ in_step_exists \in BOOLEAN
  /\ in_plane \in PlaneInputs
  /\ PipeStart
  /\ ExtIdle

\* ------------------------------------------------- program order of main()
ScopeBlocks == {"ReadFile", "TransferRoots", "OneShape", "Section", "Explore",
                "Viz", "Write"}

\* variant: the plane is built and sectioned right after ReadFile
BlockAfter_SkipTransfer(b) ==
  CASE b = "Parse"         -> "CheckPlane"
    [] b = "CheckPlane"    -> "ReadFile"
    [] b = "ReadFile"      -> "CreatePlane"
    [] b = "TransferRoots" -> "OneShape"
    [] b = "OneShape"      -> "CreatePlane"
    [] b = "CreatePlane"   -> "Section"
    [] b = "Section"       -> "Explore"
    [] b = "Explore"       -> "Branch"
    [] b = "Viz"           -> "Write"
    [] b = "Write"         -> "Report"

\* the statement that follows each block in read_step_geometry,
\* find_intersection and main
BlockAfter(b) ==
  CASE b = "Parse"         -> "CheckPlane"
    [] b = "CheckPlane"    -> "ReadFile"
    [] b = "ReadFile"      -> "TransferRoots"
    [] b = "TransferRoots" -> "OneShape"
    [] b = "OneShape"      -> "CreatePlane"
    [] b = "CreatePlane"   -> "Section"
    [] b = "Section"       -> "Explore"
    [] b = "Explore"       -> "Branch"
    [] b = "Viz"           -> "Write"
    [] b = "Write"         -> "Report"

Entry(b) == IF b \in ScopeBlocks THEN Pos(b, "enter") ELSE Pos(b, "run")
Done == Pos("done", "done")

Called(op) == calls' = [calls EXCEPT ![op] = @ + 1]

Raise(e) == /\ err' = e
            /\ pc' = Done

\* ------------------------------------------------------- redirect_output
SavedTarget(name) == (CHOOSE r \in saved_fds : r.fd = name).to

\* common_lib.redirect_output up to the yield: two os.dup, open(logfile, 'a'),
\* two os.dup2.  open() may raise OSError; the descriptors duplicated before
\* it are then not closed, because the try/finally starts after the open.
RedirectEnter ==
  /\ pc.ph = "enter"
  /\ saved_fds' = saved_fds \cup {[fd |-> "saved_stdout_fd", to |-> stdout_fd],
                                  [fd |-> "saved_stderr_fd", to |-> stderr_fd]}
  /\ log_opens' = log_opens + 1
  /\ \/ /\ log_open' = TRUE
        /\ stdout_fd' = "log" /\ stderr_fd' = "log"
        /\ depth' = depth + 1
        /\ pc' = Pos(pc.blk, "body")
        /\ UNCHANGED err
     \/ /\ Raise("LogOpenError")
        /\ UNCHANGED <<log_open, stdout_fd, stderr_fd, depth>>
  /\ UNCHANGED <<in_step_exists, in_plane, plane_point, plane_normal, out,
                 pending, calls, read_status, transfer_ok, shape, plane, is_done,
                 result_shape, has_edges, result, bbox, dims, dimension, patch,
                 image_on_disk, step_on_disk, render_outcome, write_status,
                 history, extVars>>

\* the finally clause and the exit of "with open(...)": restore both streams,
\* close both saved descriptors, close the log; a pending exception propagates
RedirectExit ==
  /\ pc.ph = "exit"
  /\ stdout_fd' = SavedTarget("saved_stdout_fd")
  /\ stderr_fd' = SavedTarget("saved_stderr_fd")
  /\ saved_fds' = {}
  /\ log_open' = FALSE
  /\ depth' = depth - 1
  /\ IF pending # "none"
       THEN Raise(pending) /\ pending' = "none"
       ELSE pc' = Pos(pc.blk, "after") /\ UNCHANGED <<err, pending>>
  /\ UNCHANGED <<in_step_exists, in_plane, plane_point, plane_normal, out,
                 log_opens, calls, read_status, transfer_ok, shape, plane,
                 is_done, result_shape, has_edges, result, bbox, dims, dimension,
                 patch, image_on_disk, step_on_disk, render_outcome,
                 write_status, history, extVars>>

\* a kernel call inside a scope raises: the exception unwinds through the scope
KernelRaises == pending' = "KernelError" /\ pc' = Pos(pc.blk, "exit")

scopeVars == <<stdout_fd, stderr_fd, saved_fds, log_open, depth, log_opens>>
argVars   == <<in_step_exists, in_plane>>
vizVars   == <<bbox, dims, dimension, patch, image_on_disk, render_outcome>>

\* ------------------------------------------------------------------ main
\* parser.parse_args(): type=common_lib.check_file raises OSError
ParseArgs ==
  /\ pc = Pos("Parse", "run")
  /\ IF in_step_exists
       THEN pc' = Entry(BlockAfter("Parse")) /\ UNCHANGED err
       ELSE Raise("FileNotFound")
  /\ UNCHANGED <<argVars, plane_point, plane_normal, out, pending, scopeVars,
                 calls, read_status, transfer_ok, shape, plane, is_done,
                 result_shape, has_edges, result, vizVars, step_on_disk,
                 write_status, history, extVars>>

\* if len(args.in_plane) != 6: raise; plane_point, plane_normal = slices
CheckPlane ==
  /\ pc = Pos("CheckPlane", "run")
  /\ IF PlaneLenOk(in_plane)
       THEN /\ plane_point' = SubSeq(in_plane, 1, 3)
            /\ plane_normal' = SubSeq(in_plane, 4, Len(in_plane))
            /\ pc' = Entry(BlockAfter("CheckPlane"))
            /\ UNCHANGED err
       ELSE /\ Raise("ArgumentTypeError")
            /\ UNCHANGED <<plane_point, plane_normal>>
  /\ UNCHANGED <<argVars, out, pending, scopeVars, calls, read_status,
                 transfer_ok, shape, plane, is_done, result_shape, has_edges,
                 result, vizVars, step_on_disk, write_status, history, extVars>>

\* ------------------------------------------------------ read_step_geometry
ReadFile ==
  /\ pc = Pos("ReadFile", "body")
  /\ Called("ReadFile")
  /\ \/ /\ \E s \in Statuses : read_status' = s
        /\ pc' = Pos("ReadFile", "exit")
        /\ UNCHANGED pending
     \/ KernelRaises /\ UNCHANGED read_status
  /\ UNCHANGED <<argVars, plane_point, plane_normal, err, out, scopeVars,
                 transfer_ok, shape, plane, is_done, result_shape, has_edges,
                 result, vizVars, step_on_disk, write_status, history, extVars>>

AfterReadFile ==
  /\ pc = Pos("ReadFile", "after")
  /\ IF ReadStatusOk(read_status)
       THEN /\ out' = Append(out, "STEP file has been read")
            /\ pc' = Entry(BlockAfter("ReadFile"))
            /\ UNCHANGED err
       ELSE Raise("ReadFailed") /\ UNCHANGED out
  /\ UNCHANGED <<argVars, plane_point, plane_normal, pending, scopeVars, calls,
                 read_status, transfer_ok, shape, plane, is_done, result_shape,
                 has_edges, result, vizVars, step_on_disk, write_status,
                 history, extVars>>

TransferRoots ==
  /\ pc = Pos("TransferRoots", "body")
  /\ Called("TransferRoots")
  /\ \/ /\ \E ok \in BOOLEAN : transfer_ok' = ok
        /\ pc' = Pos("TransferRoots", "exit")
        /\ UNCHANGED pending
     \/ KernelRaises /\ UNCHANGED transfer_ok
  /\ UNCHANGED <<argVars, plane_point, plane_normal, err, out, scopeVars,
                 read_status, shape, plane, is_done, result_shape, has_edges,
                 result, vizVars, step_on_disk, write_status, history, extVars>>

AfterTransferRoots ==
  /\ pc = Pos("TransferRoots", "after")
  /\ IF transfer_ok
       THEN /\ out' = Append(out, "STEP file contents have been transfered")
            /\ pc' = Entry(BlockAfter("TransferRoots"))
            /\ UNCHANGED err
       ELSE Raise("TransferFailed") /\ UNCHANGED out
  /\ UNCHANGED <<argVars, plane_point, plane_normal, pending, scopeVars, calls,
                 read_status, transfer_ok, shape, plane, is_done, result_shape,
                 has_edges, result, vizVars, step_on_disk, write_status,
                 history, extVars>>

OneShape ==
  /\ pc = Pos("OneShape", "body")
  /\ Called("OneShape")
  /\ \/ /\ \E sh \in {"null", "solid"} : shape' = sh
        /\ pc' = Pos("OneShape", "exit")
        /\ UNCHANGED pending
     \/ KernelRaises /\ UNCHANGED shape
  /\ UNCHANGED <<argVars, plane_point, plane_normal, err, out, scopeVars,
                 read_status, transfer_ok, plane, is_done, result_shape,
                 has_edges, result, vizVars, step_on_disk, write_status,
                 history, extVars>>

\* if shape.IsNull(): raise; return shape
AfterOneShape ==
  /\ pc = Pos("OneShape", "after")
  /\ IF shape = "null"
       THEN Raise("NoGeometry") /\ UNCHANGED history
       ELSE /\ history' = Append(history, "Loaded")
            /\ pc' = Entry(BlockAfter("OneShape"))
            /\ UNCHANGED err
  /\ UNCHANGED <<argVars, plane_point, plane_normal, out, pending, scopeVars,
                 calls, read_status, transfer_ok, shape, plane, is_done,
                 result_shape, has_edges, result, vizVars, step_on_disk,
                 write_status, extVars>>

\* -------------------------------------------------------- find_intersection
\* create_plane_point_normal: gp_Pnt, gp_Dir, gp_Pln (outside any scope)
CreatePlane ==
  /\ pc = Pos("CreatePlane", "run")
  /\ Called("gp_Dir")
  /\ IF gp_DirRaises(plane_normal)
       THEN Raise("ConstructionError") /\ UNCHANGED plane
       ELSE /\ plane' = "plane"
            /\ pc' = Entry(BlockAfter("CreatePlane"))
            /\ UNCHANGED err
  /\ UNCHANGED <<argVars, plane_point, plane_normal, out, pending, scopeVars,
                 read_status, transfer_ok, shape, is_done, result_shape,
                 has_edges, result, vizVars, step_on_disk, write_status,
                 history, extVars>>

\* BRepAlgoAPI_Section(shape, plane, True) ... section.Build()
Section ==
  /\ pc = Pos("Section", "body")
  /\ Called("Build")
  /\ \/ /\ \E d \in BOOLEAN : is_done' = d
        /\ pc' = Pos("Section", "exit")
        /\ UNCHANGED pending
     \/ KernelRaises /\ UNCHANGED is_done
  /\ UNCHANGED <<argVars, plane_point, plane_normal, err, out, scopeVars,
                 read_status, transfer_ok, shape, plane, result_shape,
                 has_edges, result, vizVars, step_on_disk, write_status,
                 history, extVars>>

\* if not section.IsDone(): raise
AfterSection ==
  /\ pc = Pos("Section", "after")
  /\ IF is_done
       THEN /\ out' = Append(out, "Computation of intersection finished")
            /\ pc' = Entry(BlockAfter("Section"))
            /\ UNCHANGED err
       ELSE Raise("SectionFailed") /\ UNCHANGED out
  /\ UNCHANGED <<argVars, plane_point, plane_normal, pending, scopeVars, calls,
                 read_status, transfer_ok, shape, plane, is_done, result_shape,
                 has_edges, result, vizVars, step_on_disk, write_status,
                 history, extVars>>

\* result_shape = section.Shape(); explorer over TopAbs_EDGE; has_edges = More()
Explore ==
  /\ pc = Pos("Explore", "body")
  /\ Called("Explore")
  /\ \/ /\ \E rs \in ResultShapes :
             /\ result_shape' = rs
             /\ has_edges' = ExplorerMore(rs)
        /\ pc' = Pos("Explore", "exit")
        /\ UNCHANGED pending
     \/ KernelRaises /\ UNCHANGED <<result_shape, has_edges>>
  /\ UNCHANGED <<argVars, plane_point, plane_normal, err, out, scopeVars,
                 read_status, transfer_ok, shape, plane, is_done, result,
                 vizVars, step_on_disk, write_status, history, extVars>>

\* if has_edges: result = True; return shape, plane, result_shape, result
AfterExplore ==
  /\ pc = Pos("Explore", "after")
  /\ result' = IF has_edges THEN TRUE ELSE result
  /\ history' = Append(history, "Sectioned")
  /\ pc' = Entry(BlockAfter("Explore"))
  /\ UNCHANGED <<argVars, plane_point, plane_normal, err, out, pending,
                 scopeVars, calls, read_status, transfer_ok, shape, plane,
                 is_done, result_shape, has_edges, vizVars, step_on_disk,
                 write_status, extVars>>

\* ------------------------------------------------------- main, after return
\* if result: ... else: print("No intersection found")
Branch ==
  /\ pc = Pos("Branch", "run")
  /\ IF BranchTarget(result) = "NoIntersection"
       THEN /\ out' = Append(out, "No intersection found")
            /\ history' = Append(history, "NoIntersection")
            /\ pc' = Done
       ELSE /\ history' = Append(history, "IntersectionFound")
            /\ pc' = Entry(BranchTarget(result))
            /\ UNCHANGED out
  /\ UNCHANGED <<argVars, plane_point, plane_normal, err, pending, scopeVars,
                 calls, read_status, transfer_ok, shape, plane, is_done,
                 result_shape, has_edges, result, vizVars, step_on_disk,
                 write_status, extVars>>

\* dx, dy, dz = step_file_lib.compute_dimensions(shape)
VizDimensions ==
  /\ pc = Pos("Viz", "body")
  /\ Called("BndBox")
  /\ \/ /\ \E b \in Boxes :
             /\ bbox' = b
             /\ dims' = compute_dimensions(b)
        /\ pc' = Pos("Viz", "max")
        /\ UNCHANGED pending
     \/ KernelRaises /\ UNCHANGED <<bbox, dims>>
  /\ UNCHANGED <<argVars, plane_point, plane_normal, err, out, scopeVars,
                 read_status, transfer_ok, shape, plane, is_done, result_shape,
                 has_edges, result, dimension, patch, image_on_disk,
                 render_outcome, step_on_disk, write_status, history, extVars>>

\* dimension = max(dx, dy, dz)
VizMax ==
  /\ pc = Pos("Viz", "max")
  /\ dimension' = MaxDim(dims)
  /\ pc' = Pos("Viz", "combine")
  /\ UNCHANGED <<argVars, plane_point, plane_normal, err, out, pending,
                 scopeVars, calls, read_status, transfer_ok, shape, plane,
                 is_done, result_shape, has_edges, result, bbox, dims, patch,
                 image_on_disk, render_outcome, step_on_disk, write_status,
                 history, extVars>>

\* display = combine_geometry_plane(shape, plane, dimension):
\* create_face, init_display, DisplayShape twice
VizCombine ==
  /\ pc = Pos("Viz", "combine")
  /\ patch' = create_face(dimension)
  /\ Called("init_display")
  /\ \/ pc' = Pos("Viz", "plot") /\ UNCHANGED pending
     \/ KernelRaises
  /\ UNCHANGED <<argVars, plane_point, plane_normal, err, out, scopeVars,
                 read_status, transfer_ok, shape, plane, is_done, result_shape,
                 has_edges, result, bbox, dims, dimension, image_on_disk,
                 render_outcome, step_on_disk, write_status, history, extVars>>

\* plot_geometry: FitAll, Repaint, ExportToImage(output); the viewer's
\* ExportToImage returns nothing, so a dump that wrote no file goes unnoticed
VizPlot ==
  /\ pc = Pos("Viz", "plot")
  /\ Called("ExportToImage")
  /\ \/ /\ \E o \in {"written", "not_written"} :
             /\ render_outcome' = o
             /\ image_on_disk' = (image_on_disk \/ o = "written")
        /\ history' = Append(history, "Visualized")
        /\ pc' = Pos("Viz", "exit")
        /\ UNCHANGED pending
     \/ /\ KernelRaises
        /\ render_outcome' = "raised"
        /\ UNCHANGED <<image_on_disk, history>>
  /\ UNCHANGED <<argVars, plane_point, plane_normal, err, out, scopeVars,
                 read_status, transfer_ok, shape, plane, is_done, result_shape,
                 has_edges, result, bbox, dims, dimension, patch, step_on_disk,
                 write_status, extVars>>

\* end of the with block in main; write_step_geometry comes next
AfterViz ==
  /\ pc = Pos("Viz", "after")
  /\ pc' = Entry(BlockAfter("Viz"))
  /\ UNCHANGED <<argVars, plane_point, plane_normal, err, out, pending,
                 scopeVars, calls, read_status, transfer_ok, shape, plane,
                 is_done, result_shape, has_edges, result, vizVars,
                 step_on_disk, write_status, history, extVars>>

\* write_step_geometry: Transfer(shape, AsIs); status = Write(output_file)
WriteStep ==
  /\ pc = Pos("Write", "body")
  /\ Called("Write")
  /\ \/ /\ \E s \in Statuses :
             /\ write_status' = s
             /\ step_on_disk' = (step_on_disk \/ s = RetDone)
        /\ pc' = Pos("Write", "exit")
        /\ UNCHANGED pending
     \/ KernelRaises /\ UNCHANGED <<write_status, step_on_disk>>
  /\ UNCHANGED <<argVars, plane_point, plane_normal, err, out, scopeVars,
                 read_status, transfer_ok, shape, plane, is_done, result_shape,
                 has_edges, result, vizVars, history, extVars>>

\* return status
AfterWrite ==
  /\ pc = Pos("Write", "after")
  /\ pc' = Entry(BlockAfter("Write"))
  /\ UNCHANGED <<argVars, plane_point, plane_normal, err, out, pending,
                 scopeVars, calls, read_status, transfer_ok, shape, plane,
                 is_done, result_shape, has_edges, result, vizVars,
                 step_on_disk, write_status, history, extVars>>

\* if status != True: raise RuntimeError(...) else: two prints
Report ==
  /\ pc = Pos("Report", "run")
  /\ IF WriteStatusOk(write_status)
       THEN /\ out' = out \o <<"Intersection found and written",
                               "A png file has been written">>
            /\ history' = Append(history, "Persisted")
            /\ pc' = Done
            /\ UNCHANGED err
       ELSE Raise("WriteFailed") /\ UNCHANGED <<out, history>>
  /\ UNCHANGED <<argVars, plane_point, plane_normal, pending, scopeVars, calls,
                 read_status, transfer_ok, shape, plane, is_done, result_shape,
                 has_edges, result, vizVars, step_on_disk, write_status,
                 extVars>>

Next ==
  \/ ParseArgs \/ CheckPlane
  \/ RedirectEnter \/ RedirectExit
  \/ ReadFile \/ AfterReadFile
  \/ TransferRoots \/ AfterTransferRoots
  \/ OneShape \/ AfterOneShape
  \/ CreatePlane
  \/ Section \/ AfterSection
  \/ Explore \/ AfterExplore
  \/ Branch
  \/ VizDimensions \/ VizMax \/ VizCombine \/ VizPlot \/ AfterViz
  \/ WriteStep \/ AfterWrite
  \/ Report

Spec == Init /\ [][Next]_vars

\* ------------------------------------------- extent sizing as a pure function
\* the sizing of main() lines 83-85 applied to a box and to the box scaled by k
ExtInit ==
  /\ in_step_exists = TRUE
  /\ in_plane = <<2, 2, 2, 0, 0, 1>>
  /\ PipeStart
  /\ e_pc = "dims"
  /\ e_box \in BoxesOver(SignedCoords)
  /\ e_k \in 1..MaxK
  /\ e_dims = NoDims /\ e_dim = 0 /\ e_patch = NoPatch
  /\ e_sdims = NoDims /\ e_sdim = 0

ExtDimensions ==
  /\ e_pc = "dims"
  /\ e_dims' = compute_dimensions(e_box)
  /\ e_sdims' = compute_dimensions(Scale(e_box, e_k))
  /\ e_pc' = "max"
  /\ UNCHANGED <<pipeVars, e_box, e_k, e_dim, e_patch, e_sdim>>

ExtMax ==
  /\ e_pc = "max"
  /\ e_dim' = MaxDim(e_dims)
  /\ e_sdim' = MaxDim(e_sdims)
  /\ e_pc' = "face"
  /\ UNCHANGED <<pipeVars, e_box, e_k, e_dims, e_patch, e_sdims>>

ExtFace ==
  /\ e_pc = "face"
  /\ e_patch' = create_face(e_dim)
  /\ e_pc' = "done"
  /\ UNCHANGED <<pipeVars, e_box, e_k, e_dims, e_dim, e_sdims, e_sdim>>

ExtNext == ExtDimensions \/ ExtMax \/ ExtFace

SpecExtent == ExtInit /\ [][ExtNext]_vars

\* ================================================================ properties
Terminal   == pc = Done
Classified == \E i \in DOMAIN history : history[i] = "Sectioned"
Reached(st) == \E i \in DOMAIN history : history[i] = st
NoCalls(ops) == \A o \in ops : calls[o] = 0
IsPrefix(h, q) == Len(h) <= Len(q) /\ \A i \in 1..Len(h) : h[i] = q[i]
ZeroNormal(p) == \A i \in 4..Len(p) : p[i] = 0
InvalidPlane(p) == Len(p) # 6 \/ ZeroNormal(p)

\* C1: a run whose section result is NonEmpty either ends in an error or ends
\* successfully with both the image file and the intersection STEP file written.
C1_BothOutputsOrError ==
  (Terminal /\ Classified /\ result /\ err = "none")
     => (image_on_disk /\ step_on_disk)

\* C2 (as stated): with a plane input that has not exactly 6 values or whose
\* normal is (0,0,0), the run never loads the solid, never opens a log file and
\* makes no kernel call.
C2_InvalidPlaneBeforeIO ==
  InvalidPlane(in_plane) => (log_opens = 0 /\ NoCalls(KernelOps))

\* C2 (amended): a plane input that has not exactly 6 values is rejected before
\* any kernel call and before any log file is opened; a 6-value input with
\* normal (0,0,0) is rejected by the direction constructor only after the solid
\* has been loaded (three log openings) and before the section computation.
C2_CountBeforeIO_NormalAfterLoad ==
  /\ Len(in_plane) # 6 => (log_opens = 0 /\ NoCalls(KernelOps))
  /\ err = "ArgumentTypeError" <=> (Terminal /\ in_step_exists /\ Len(in_plane) # 6)
  /\ err = "ConstructionError" =>
       /\ Len(in_plane) = 6 /\ ZeroNormal(in_plane)
       /\ shape = "solid" /\ Reached("Loaded") /\ log_opens = 3
       /\ calls["ReadFile"] = 1 /\ calls["TransferRoots"] = 1
       /\ calls["OneShape"] = 1
       /\ NoCalls({"Build", "Explore", "BndBox", "init_display",
                   "ExportToImage", "Write"})
  /\ (Len(in_plane) = 6 /\ ZeroNormal(in_plane)) => calls["Build"] = 0

C2_Witness ==
  Terminal /\ err = "ConstructionError" /\ shape = "solid" /\ log_opens = 3

\* C3: with other than 6 values or with normal (0,0,0) the run fails with an
\* error and the section computation is never invoked; with 6 values and a
\* non-zero normal no plane-related error is raised and the plane is built
\* whenever its construction is reached.
C3_PlaneConstruction ==
  /\ InvalidPlane(in_plane) =>
       /\ calls["Build"] = 0 /\ plane = "unset" /\ ~Classified
       /\ Terminal => err # "none"
  /\ ~InvalidPlane(in_plane) =>
       /\ err \notin {"ArgumentTypeError", "ConstructionError"}
       /\ calls["gp_Dir"] = 1 => plane = "plane"
       /\ calls["gp_Dir"] = 1 =>
            /\ plane_point = <<in_plane[1], in_plane[2], in_plane[3]>>
            /\ plane_normal = <<in_plane[4], in_plane[5], in_plane[6]>>

C3_Witness ==
  /\ ~InvalidPlane(in_plane) /\ calls["gp_Dir"] = 1 /\ plane = "plane"
  /\ plane_normal = <<0, 0, 1>>

\* C4: when the section result is classified Empty the run ends without error
\* with the "No intersection found" notice, and sizing, rendering and the STEP
\* writer are never invoked, so no image and no STEP file is written.
C4_EmptyShortCircuit ==
  (Classified /\ ~result) =>
     /\ NoCalls({"BndBox", "init_display", "ExportToImage", "Write"})
     /\ ~image_on_disk /\ ~step_on_disk
     /\ err = "none"
     /\ pc \in {Pos("Branch", "run"), Done}
     /\ Terminal => /\ out[Len(out)] = "No intersection found"
                    /\ history[Len(history)] = "NoIntersection"

C4_Witness ==
  /\ Terminal /\ Classified /\ ~result /\ err = "none"
  /\ out[Len(out)] = "No intersection found"

\* C5: after a completed section computation the result is NonEmpty exactly
\* when the result shape contains at least one edge; vertices or faces alone
\* give Empty.
C5_EdgeClassification ==
  Classified => /\ is_done
                /\ result <=> (\E k \in result_shape : k = "EDGE")
                /\ result_shape \subseteq {"VERTEX", "FACE"} => ~result

C5_Witness ==
  /\ Classified /\ ~result
  /\ result_shape = {"VERTEX", "FACE"}

\* C6: a failed read, transfer, null shape or section computation raises an
\* error at once, no later stage runs, and no kernel operation is invoked twice.
LoadOps  == {"ReadFile", "TransferRoots", "OneShape"}
LateOps  == {"Explore", "BndBox", "init_display", "ExportToImage", "Write"}
C6_FailFastNoRetry ==
  /\ \A o \in KernelOps : calls[o] <= 1
  /\ (calls["ReadFile"] = 1 /\ pc.blk # "ReadFile" /\ read_status # 1) =>
       /\ Terminal /\ err \in {"ReadFailed", "KernelError"}
       /\ NoCalls(KernelOps \ {"ReadFile"})
  /\ (calls["TransferRoots"] = 1 /\ pc.blk # "TransferRoots" /\ ~transfer_ok) =>
       /\ Terminal /\ err \in {"TransferFailed", "KernelError"}
       /\ NoCalls(KernelOps \ {"ReadFile", "TransferRoots"})
  /\ (calls["OneShape"] = 1 /\ pc.blk # "OneShape" /\ shape # "solid") =>
       /\ Terminal /\ err \in {"NoGeometry", "KernelError"}
       /\ NoCalls(KernelOps \ LoadOps)
  /\ (calls["Build"] = 1 /\ pc.blk # "Section" /\ ~is_done) =>
       /\ Terminal /\ err \in {"SectionFailed", "KernelError"}
       /\ NoCalls(LateOps) /\ ~Classified
  /\ err \in {"ReadFailed", "TransferFailed", "NoGeometry", "SectionFailed"} =>
       /\ Terminal /\ ~Classified /\ NoCalls(LateOps)
       /\ ~image_on_disk /\ ~step_on_disk

C6_Witness ==
  /\ Terminal /\ err = "SectionFailed" /\ calls["Build"] = 1 /\ ~is_done

\* C7: a write status other than success ends the run with a write error after
\* the rendering step, and the image that step wrote is still there; a success
\* status raises nothing.
WriteReturned == calls["Write"] = 1 /\ pending = "none" /\ err # "KernelError"
                 /\ pc # Pos("Write", "body")
C7_WriteFailureKeepsImage ==
  /\ (Terminal /\ WriteReturned /\ write_status # 1) =>
       /\ err = "WriteFailed"
       /\ calls["ExportToImage"] = 1 /\ Reached("Visualized")
       /\ image_on_disk <=> (render_outcome = "written")
       /\ ~step_on_disk
  /\ (Terminal /\ WriteReturned /\ write_status = 1) =>
       /\ err = "none" /\ step_on_disk
  /\ err = "WriteFailed" => (WriteReturned /\ write_status # 1)

C7_Witness ==
  /\ Terminal /\ err = "WriteFailed" /\ write_status = 2
  /\ image_on_disk /\ render_outcome = "written"

\* C8: the stages occur only in the order Start, Loaded, Sectioned, then
\* NoIntersection, or IntersectionFound, Visualized, Persisted; each kernel
\* operation runs at most once, never inside another one's scope.
StageOrders == {<<"Start", "Loaded", "Sectioned", "NoIntersection">>,
                <<"Start", "Loaded", "Sectioned", "IntersectionFound",
                  "Visualized", "Persisted">>}
C8_StageOrder ==
  /\ \E q \in StageOrders : IsPrefix(history, q)
  /\ \A o \in KernelOps : calls[o] <= 1
  /\ calls["gp_Dir"] >= 1 => (shape = "solid" /\ Reached("Loaded"))
  /\ calls["Build"] >= 1 => (shape = "solid" /\ plane = "plane")
  /\ calls["Explore"] >= 1 => (calls["Build"] = 1 /\ is_done)
  /\ calls["BndBox"] >= 1 => (Classified /\ result)
  /\ calls["ExportToImage"] >= 1 => calls["BndBox"] = 1
  /\ calls["Write"] >= 1 => (calls["ExportToImage"] = 1 /\ Reached("Visualized"))
  /\ depth <= 1
  /\ (Terminal /\ err = "none") => history \in StageOrders

C8_Witness ==
  /\ Terminal
  /\ history = <<"Start", "Loaded", "Sectioned", "IntersectionFound",
                 "Visualized", "Persisted">>

\* C9: the extent is the largest of the three spans of the bounding box, with
\* no margin; the patch spans [-extent, extent] in both directions (side
\* 2*extent); scaling the box by k scales the extent by k.
Spans(b) == {b.xmax - b.xmin, b.ymax - b.ymin, b.zmax - b.zmin}
C9_ExtentIsMaxSpan ==
  /\ e_pc \in {"face", "done"} =>
       /\ e_dim \in Spans(e_box)
       /\ \A w \in Spans(e_box) : e_dim >= w
       /\ e_sdim = e_k * e_dim
  /\ e_pc = "done" =>
       /\ e_patch.umin = 0 - e_dim /\ e_patch.umax = e_dim
       /\ e_patch.vmin = 0 - e_dim /\ e_patch.vmax = e_dim
       /\ e_patch.umax - e_patch.umin = 2 * e_dim
       /\ e_patch.vmax - e_patch.vmin = 2 * e_dim

C9_Witness ==
  /\ e_pc = "done" /\ e_k = 2 /\ e_dim = 2 /\ e_sdim = 4
  /\ e_box.xmax - e_box.xmin = 1 /\ e_box.ymax - e_box.ymin = 2

\* C10: outside a redirect_output scope stdout and stderr point where they did
\* before and no saved descriptor is open; scopes are never nested; in
\* particular this holds at every terminal state of the run.
C10_RedirectionRestored ==
  /\ depth <= 1
  /\ depth = 0 => /\ stdout_fd = "tty" /\ stderr_fd = "tty"
                  /\ ~log_open
                  /\ saved_fds = {}

====
